---- MODULE Spec2Model ----
(***************************************************************************)
(* MessagePortMinifier (webpack/module-minifier-plugin): the request       *)
(* registry keyed by content hash, the connect() handshake, the inbound    *)
(* message router and disconnect(), over a worker_threads MessagePort.     *)
(***************************************************************************)
EXTENDS Integers, Sequences, FiniteSets, Bags, TLC

(* ---------------- bounds ---------------- *)
MaxCalls == 3
MaxConnects == 2

Hashes == {"a", "b"}
CallbackKinds == {"plain", "throws", "reenter"}

VARIABLES
  callbacks,   \* this._callbacks: hash -> sequence of callback ids
  reg,         \* every callback ever passed to minify, by id: its hash, its behaviour,
               \* the request it waits on
  clean,       \* every minify call so far was made on a healthy connection
  posted,      \* the values handed to port.postMessage so far, as a bag
  outbox,      \* values transmitted to the worker and not yet answered by it
  inbox,       \* values the worker posted, queued at the port, not yet emitted
  listeners,   \* 'message' listeners of the port, in registration order
  conns,       \* one record per connect() call: where the call stands (pc), what it
               \* got from the await (configHash), whether its disconnect() was called,
               \* and the first value the port emitted after the call (heard)
  closed,      \* port.close() has been called
  invoked,     \* every callback invocation, in order: callback id and the value passed
  routes       \* what each listener did with the message emitted last

vars == <<callbacks, reg, clean, posted, outbox, inbox, listeners, conns, closed,
          invoked, routes>>

(* ---------------- values on the wire ---------------- *)
Value(t, v, h, e, n, xs) ==
  [typ |-> t, val |-> v, hash |-> h, error |-> e, n |-> n, items |-> xs]

Undefined == Value("undefined", "", "", FALSE, 0, <<>>)
Str(s) == Value("string", s, "", FALSE, 0, <<>>)
Arr(xs) == Value("object", "array", "", FALSE, 0, xs)

\* the two message shapes of the router's parameter type that carry no result
Num == Value("number", "1", "", FALSE, 0, <<>>)
False == Value("boolean", "false", "", FALSE, 0, <<>>)
Reserved == {Num, False}

\* IModuleMinificationRequest; n stands for the code fragment of the request
Request(h, n) == Value("object", "request", h, FALSE, n, <<>>)

\* IModuleMinificationResult for request n: success (error absent) or error
Result(h, e, n) == Value("object", "result", h, e, n, <<>>)

(* ---------------- the port ---------------- *)
\* port.postMessage(m) on the machine state st: a closed port drops the value
PostMessage(st, m) ==
  [st EXCEPT !.posted = @ (+) SetToBag({m}),
             !.outbox = IF closed THEN @ ELSE Append(@, m)]

\* Map.set / Map.delete on the registry
MapSet(m, h, v) == [x \in DOMAIN m \cup {h} |-> IF x = h THEN v ELSE m[x]]
\* Map.clear for Map.delete
MapClear(m, h) == [x \in {} |-> <<>>]
MapDelete(m, h) == [x \in DOMAIN m \ {h} |-> m[x]]

\* the first index at which l occurs in the listener list, 0 if none
IndexOf(ls, l) ==
  IF \E i \in 1..Len(ls) : ls[i] = l
  THEN CHOOSE i \in 1..Len(ls) : ls[i] = l /\ \A j \in 1..(i - 1) : ls[j] # l
  ELSE 0

\* emitter.off / removeListener: drops one registration of l, nothing if absent
RemoveListener(ls, l) ==
  LET i == IndexOf(ls, l) IN
  IF i = 0 THEN ls ELSE SubSeq(ls, 1, i - 1) \o SubSeq(ls, i + 1, Len(ls))

OnceListener(c) == [kind |-> "once", conn |-> c]
HandlerListener(c) == [kind |-> "handler", conn |-> c]

\* the requests among the posted values, and the tag of the next one
PostedRequests(b) == {m \in BagToSet(b) : m.val = "request"}
NextRequest(b) == Cardinality(PostedRequests(b)) + 1

\* connect() call c has returned its connection and disconnect() was not called
Connected(c) == conns[c].pc = "connected" /\ ~conns[c].disconnected

\* a connection is established and no disconnect() was called on any
Healthy ==
  /\ \E c \in 1..Len(conns) : Connected(c)
  /\ \A c \in 1..Len(conns) : ~conns[c].disconnected

(* ---------------- minify ---------------- *)
\* The machine state st carries what minify and the router read and write:
\* [callbacks, reg, clean, posted, outbox, invoked].
Machine ==
  [callbacks |-> callbacks, reg |-> reg, clean |-> clean, posted |-> posted,
   outbox |-> outbox, invoked |-> invoked]

\* minify with the callback put at the front of the queue (unshift for push)
MinifyOpUnshift(st, h, kind) ==
  LET id == Len(st.reg) + 1 IN
  IF h \in DOMAIN st.callbacks
  THEN [st EXCEPT
          !.callbacks = [@ EXCEPT ![h] = <<id>> \o @],
          !.reg = Append(@, [hash |-> h, kind |-> kind,
                             req |-> st.reg[st.callbacks[h][1]].req]),
          !.clean = @ /\ Healthy]
  ELSE LET n == NextRequest(st.posted)
           s1 == [st EXCEPT
                    !.callbacks = MapSet(@, h, <<id>>),
                    !.reg = Append(@, [hash |-> h, kind |-> kind, req |-> n]),
                    !.clean = @ /\ Healthy]
       IN PostMessage(s1, Request(h, n))

\* minify that holds the request back until a connect() call has completed
MinifyOpWhenConnected(st, h, kind) ==
  LET id == Len(st.reg) + 1 IN
  IF h \in DOMAIN st.callbacks
  THEN [st EXCEPT
          !.callbacks = [@ EXCEPT ![h] = Append(@, id)],
          !.reg = Append(@, [hash |-> h, kind |-> kind,
                             req |-> st.reg[st.callbacks[h][1]].req]),
          !.clean = @ /\ Healthy]
  ELSE LET n == NextRequest(st.posted)
           s1 == [st EXCEPT
                    !.callbacks = MapSet(@, h, <<id>>),
                    !.reg = Append(@, [hash |-> h, kind |-> kind, req |-> n]),
                    !.clean = @ /\ Healthy]
       IN IF \E c \in 1..Len(conns) : conns[c].pc = "connected"
          THEN PostMessage(s1, Request(h, n))
          ELSE s1

\* minify(request, callback) for a request with hash h and a callback of the
\* given behaviour; the callback gets the next id
MinifyOp(st, h, kind) ==
  LET id == Len(st.reg) + 1 IN
  IF h \in DOMAIN st.callbacks
  THEN [st EXCEPT
          !.callbacks = [@ EXCEPT ![h] = Append(@, id)],
          !.reg = Append(@, [hash |-> h, kind |-> kind,
                             req |-> st.reg[st.callbacks[h][1]].req]),
          !.clean = @ /\ Healthy]
  ELSE LET n == NextRequest(st.posted)
           s1 == [st EXCEPT
                    !.callbacks = MapSet(@, h, <<id>>),
                    !.reg = Append(@, [hash |-> h, kind |-> kind, req |-> n]),
                    !.clean = @ /\ Healthy]
       IN PostMessage(s1, Request(h, n))

(* ---------------- the router installed by connect ---------------- *)
\* callback(message) for one callback: the call is recorded; a "throws"
\* callback raises, a "reenter" callback calls minify for its own hash with a
\* fresh plain callback before it returns
Callback(st, cb, msg) ==
  LET s1 == [st EXCEPT !.invoked = Append(@, [cb |-> cb, result |-> msg])]
      kind == st.reg[cb].kind
  IN [st |-> IF kind = "reenter" THEN MinifyOp(s1, st.reg[cb].hash, "plain") ELSE s1,
      threw |-> kind = "throws"]

RECURSIVE InvokeAllGoesOn(_, _, _)
\* the loop with every call in a try block: the callbacks after a throwing one
\* are still invoked, the first error is raised at the end
InvokeAllGoesOn(st, queue, msg) ==
  IF queue = <<>>
  THEN [st |-> st, threw |-> FALSE]
  ELSE LET r == Callback(st, Head(queue), msg)
           rest == InvokeAllGoesOn(r.st, Tail(queue), msg)
       IN [st |-> rest.st, threw |-> r.threw \/ rest.threw]

\* for (const callback of callbacksForRequest) callback(message)
RECURSIVE InvokeAll(_, _, _)
InvokeAll(st, queue, msg) ==
  IF queue = <<>>
  THEN [st |-> st, threw |-> FALSE]
  ELSE LET r == Callback(st, Head(queue), msg) IN
       IF r.threw THEN r ELSE InvokeAll(r.st, Tail(queue), msg)

\* handler without callbacks.delete(message.hash)
HandlerKeepsEntry(st, msg) ==
  IF msg.typ = "object"
  THEN LET present == msg.hash \in DOMAIN st.callbacks
           queue == IF present THEN st.callbacks[msg.hash] ELSE <<>>
       IN IF ~present
          THEN [st |-> st, present |-> FALSE, queue |-> queue, raised |-> "TypeError"]
          ELSE LET r == InvokeAll(st, queue, msg) IN
               [st |-> r.st, present |-> TRUE, queue |-> queue,
                raised |-> IF r.threw THEN "callback" ELSE "none"]
  ELSE [st |-> st, present |-> FALSE, queue |-> <<>>, raised |-> "none"]

\* handler that treats a missing entry as an empty queue (callbacks.get(...) || [])
HandlerIgnoresUnknown(st, msg) ==
  IF msg.typ = "object"
  THEN LET present == msg.hash \in DOMAIN st.callbacks
           queue == IF present THEN st.callbacks[msg.hash] ELSE <<>>
           s1 == [st EXCEPT !.callbacks = MapDelete(@, msg.hash)]
           r == InvokeAll(s1, queue, msg)
       IN [st |-> r.st, present |-> present, queue |-> queue,
           raised |-> IF r.threw THEN "callback" ELSE "none"]
  ELSE [st |-> st, present |-> FALSE, queue |-> <<>>, raised |-> "none"]

\* handler without the typeof test: a value that is no object has no hash, the
\* lookup finds nothing and the loop over undefined raises
HandlerNoTypeCheck(st, msg) ==
  LET present == msg.typ = "object" /\ msg.hash \in DOMAIN st.callbacks
      queue == IF present THEN st.callbacks[msg.hash] ELSE <<>>
      s1 == [st EXCEPT !.callbacks = IF msg.typ = "object"
                                     THEN MapDelete(@, msg.hash) ELSE @]
  IN IF ~present
     THEN [st |-> s1, present |-> FALSE, queue |-> queue, raised |-> "TypeError"]
     ELSE LET r == InvokeAll(s1, queue, msg) IN
          [st |-> r.st, present |-> TRUE, queue |-> queue,
           raised |-> IF r.threw THEN "callback" ELSE "none"]

\* handler(message): the result says what was raised out of it
Handler(st, msg) ==
  IF msg.typ = "object"
  THEN LET present == msg.hash \in DOMAIN st.callbacks
           queue == IF present THEN st.callbacks[msg.hash] ELSE <<>>
           s1 == [st EXCEPT !.callbacks = MapDelete(@, msg.hash)]
       IN IF ~present
          THEN [st |-> s1, present |-> FALSE, queue |-> queue, raised |-> "TypeError"]
          ELSE LET r == InvokeAll(s1, queue, msg) IN
               [st |-> r.st, present |-> TRUE, queue |-> queue,
                raised |-> IF r.threw THEN "callback" ELSE "none"]
  ELSE [st |-> st, present |-> FALSE, queue |-> <<>>, raised |-> "none"]

\* events.once(port, 'message') firing for connection c: the listener is
\* removed and the promise is fulfilled with the array of emitted arguments
Once(cs, c, msg) ==
  [cs EXCEPT ![c] = [@ EXCEPT !.pc = "resolved", !.configHash = Arr(<<msg>>)]]

\* port 'message' event: every listener of the snapshot ls is called with msg
\* in registration order. es = [st, listeners, conns, routes]. When a listener
\* throws, an EventEmitter port skips the listeners after it (abort), an
\* EventTarget port reports the error and goes on.
RECURSIVE EmitTo(_, _, _, _)
EmitTo(es, ls, msg, abort) ==
  IF ls = <<>>
  THEN es
  ELSE LET l == Head(ls) IN
       IF l.kind = "once"
       THEN EmitTo([es EXCEPT
                      !.listeners = RemoveListener(@, l),
                      !.conns = Once(@, l.conn, msg),
                      !.routes = Append(@, [conn |-> l.conn, kind |-> "once", msg |-> msg,
                                            present |-> FALSE, queue |-> <<>>,
                                            raised |-> "none",
                                            from |-> Len(es.st.invoked),
                                            to |-> Len(es.st.invoked)])],
                   Tail(ls), msg, abort)
       ELSE LET r == Handler(es.st, msg)
                es1 == [es EXCEPT
                          !.st = r.st,
                          !.routes = Append(@, [conn |-> l.conn, kind |-> "handler",
                                                msg |-> msg, present |-> r.present,
                                                queue |-> r.queue, raised |-> r.raised,
                                                from |-> Len(es.st.invoked),
                                                to |-> Len(r.st.invoked)])]
            IN IF r.raised # "none" /\ abort
               THEN es1
               ELSE EmitTo(es1, Tail(ls), msg, abort)

(* ---------------- actions ---------------- *)
Init ==
  /\ callbacks = [h \in {} |-> <<>>]
  /\ reg = <<>>
  /\ clean = TRUE
  /\ posted = EmptyBag
  /\ outbox = <<>>
  /\ inbox = <<>>
  /\ listeners = <<>>
  /\ conns = <<>>
  /\ closed = FALSE
  /\ invoked = <<>>
  /\ routes = <<>>

\* "reenter" callbacks that were registered and have not run yet: each will
\* make one more minify call
PendingReenter ==
  Cardinality({i \in 1..Len(reg) :
                 /\ reg[i].kind = "reenter"
                 /\ \A j \in 1..Len(invoked) : invoked[j].cb # i})

\* The continuation of a fulfilled promise is a microtask: it runs when the
\* listeners of the emit that fulfilled it have returned, before any other task.
MicrotaskPending == \E c \in 1..Len(conns) : conns[c].pc = "resolved"

\* a caller calls minify(request, callback)
Minify(h, kind) ==
  /\ ~MicrotaskPending
  /\ Len(reg) + PendingReenter + 1 + (IF kind = "reenter" THEN 1 ELSE 0) <= MaxCalls
  /\ LET s == MinifyOp(Machine, h, kind) IN
       /\ callbacks' = s.callbacks
       /\ reg' = s.reg
       /\ clean' = s.clean
       /\ posted' = s.posted
       /\ outbox' = s.outbox
  /\ UNCHANGED <<inbox, listeners, conns, closed, invoked, routes>>

\* a caller calls connect(): the body up to the await
Connect ==
  /\ ~MicrotaskPending
  /\ Len(conns) < MaxConnects
  /\ LET c == Len(conns) + 1
         s == PostMessage(Machine, Str("initialize")) IN
       /\ listeners' = Append(listeners, OnceListener(c))
       /\ posted' = s.posted
       /\ outbox' = s.outbox
       /\ conns' = Append(conns, [pc |-> "awaiting", configHash |-> Undefined,
                                  heard |-> Undefined, disconnected |-> FALSE])
  /\ UNCHANGED <<callbacks, reg, clean, inbox, closed, invoked, routes>>

\* connect() returning without port.on('message', handler)
ConnectResumeNoRouter(c) ==
  /\ conns[c].pc = "resolved"
  /\ \A d \in 1..(c - 1) : conns[d].pc # "resolved"
  /\ conns' = [conns EXCEPT ![c].pc = "connected"]
  /\ UNCHANGED <<callbacks, reg, clean, posted, outbox, inbox, listeners, closed,
                 invoked, routes>>

\* connect() after the await: the router is installed and the connection
\* returned. Continuations run in the order their promises were fulfilled.
ConnectResume(c) ==
  /\ conns[c].pc = "resolved"
  /\ \A d \in 1..(c - 1) : conns[d].pc # "resolved"
  /\ listeners' = Append(listeners, HandlerListener(c))
  /\ conns' = [conns EXCEPT ![c].pc = "connected"]
  /\ UNCHANGED <<callbacks, reg, clean, posted, outbox, inbox, closed, invoked, routes>>

\* disconnect() without port.close()
DisconnectKeepsOpen(c) ==
  /\ ~MicrotaskPending
  /\ conns[c].pc = "connected"
  /\ listeners' = RemoveListener(listeners, HandlerListener(c))
  /\ conns' = [conns EXCEPT ![c].disconnected = TRUE]
  /\ UNCHANGED <<callbacks, reg, clean, posted, outbox, inbox, closed, invoked, routes>>

\* disconnect() that also empties the registry (this._callbacks.clear())
DisconnectClearsRegistry(c) ==
  /\ ~MicrotaskPending
  /\ conns[c].pc = "connected"
  /\ listeners' = RemoveListener(listeners, HandlerListener(c))
  /\ closed' = TRUE
  /\ conns' = [conns EXCEPT ![c].disconnected = TRUE]
  /\ callbacks' = [h \in {} |-> <<>>]
  /\ UNCHANGED <<reg, clean, posted, outbox, inbox, invoked, routes>>

\* disconnect() that drops every 'message' listener of the port
\* (port.removeAllListeners('message') for port.off('message', handler))
DisconnectRemovesAll(c) ==
  /\ ~MicrotaskPending
  /\ conns[c].pc = "connected"
  /\ listeners' = <<>>
  /\ closed' = TRUE
  /\ conns' = [conns EXCEPT ![c].disconnected = TRUE]
  /\ UNCHANGED <<callbacks, reg, clean, posted, outbox, inbox, invoked, routes>>

\* a caller calls disconnect() of the connection that connect() call c returned
Disconnect(c) ==
  /\ ~MicrotaskPending
  /\ conns[c].pc = "connected"
  /\ listeners' = RemoveListener(listeners, HandlerListener(c))
  /\ closed' = TRUE
  /\ conns' = [conns EXCEPT ![c].disconnected = TRUE]
  /\ UNCHANGED <<callbacks, reg, clean, posted, outbox, inbox, invoked, routes>>

\* every connect() call that has heard nothing yet hears msg first
Hear(cs, msg) ==
  [c \in 1..Len(cs) |->
     IF cs[c].heard = Undefined THEN [cs[c] EXCEPT !.heard = msg] ELSE cs[c]]

\* the port emits the oldest queued value. It emits only while it has a
\* 'message' listener and is open.
Deliver(abort) ==
  /\ ~closed
  /\ inbox # <<>>
  /\ listeners # <<>>
  /\ ~MicrotaskPending
  /\ LET es == EmitTo([st |-> Machine, listeners |-> listeners,
                       conns |-> Hear(conns, Head(inbox)),
                       routes |-> <<>>], listeners, Head(inbox), abort) IN
       /\ callbacks' = es.st.callbacks
       /\ reg' = es.st.reg
       /\ clean' = es.st.clean
       /\ posted' = es.st.posted
       /\ outbox' = es.st.outbox
       /\ invoked' = es.st.invoked
       /\ listeners' = es.listeners
       /\ conns' = es.conns
       /\ routes' = es.routes
  /\ inbox' = Tail(inbox)
  /\ UNCHANGED <<closed>>

\* the worker answers one of the values it has received: the configuration
\* identity for "initialize", a result with the request's hash for a request
WorkerReply(i, e) ==
  /\ i \in 1..Len(outbox)
  /\ LET m == outbox[i] IN
       inbox' = Append(inbox, IF m.typ = "string" THEN Str("cfg")
                              ELSE Result(m.hash, e, m.n))
  /\ outbox' = SubSeq(outbox, 1, i - 1) \o SubSeq(outbox, i + 1, Len(outbox))
  /\ UNCHANGED <<callbacks, reg, clean, posted, listeners, conns, closed, invoked, routes>>

Next ==
  \/ \E h \in Hashes, kind \in CallbackKinds : Minify(h, kind)
  \/ Connect
  \/ \E c \in 1..Len(conns) : ConnectResume(c)
  \/ \E c \in 1..Len(conns) : Disconnect(c)
  \/ \E abort \in BOOLEAN : Deliver(abort)
  \/ \E i \in 1..Len(outbox), e \in BOOLEAN : WorkerReply(i, e)

Spec == Init /\ [][Next]_vars

(* ---------------- the worker also sends reserved values ---------------- *)
\* the worker posts a bare number or false; one such value is queued at a time
WorkerNoise(m) ==
  /\ \A i \in 1..Len(inbox) : inbox[i] \notin Reserved
  /\ inbox' = Append(inbox, m)
  /\ UNCHANGED <<callbacks, reg, clean, posted, outbox, listeners, conns, closed,
                 invoked, routes>>

\* with such a worker the callers make one minify call and one connect() call
\* less than the bounds allow
NoisyMinify(h, kind) ==
  /\ Len(reg) + PendingReenter + 2 <= MaxCalls
  /\ Minify(h, kind)

NoisyConnect ==
  /\ Len(conns) + 2 <= MaxConnects
  /\ Connect

\* the program with a worker that sends reserved values between its answers
NoisyNext ==
  \/ \E h \in Hashes, kind \in CallbackKinds : NoisyMinify(h, kind)
  \/ NoisyConnect
  \/ \E c \in 1..Len(conns) : ConnectResume(c)
  \/ \E c \in 1..Len(conns) : Disconnect(c)
  \/ \E abort \in BOOLEAN : Deliver(abort)
  \/ \E i \in 1..Len(outbox), e \in BOOLEAN : WorkerReply(i, e)
  \/ \E m \in Reserved : WorkerNoise(m)

NoisySpec == Init /\ [][NoisyNext]_vars

(* ======================= properties ======================= *)
Ids == 1..Len(reg)
Routes == {routes[i] : i \in 1..Len(routes)}
Routed == {r \in Routes : r.kind = "handler" /\ r.msg.typ = "object"}
InvokedCount(cb) == Cardinality({i \in 1..Len(invoked) : invoked[i].cb = cb})
Count(ls, l) == Cardinality({i \in 1..Len(ls) : ls[i] = l})
IsPrefix(s, t) == Len(s) <= Len(t) /\ SubSeq(t, 1, Len(s)) = s

\* requests for h the worker has not answered, plus answers the port has not emitted
InFlight(h) ==
  Cardinality({i \in 1..Len(outbox) : outbox[i].val = "request" /\ outbox[i].hash = h})
  + Cardinality({i \in 1..Len(inbox) : inbox[i].val = "result" /\ inbox[i].hash = h})

\* C1: for every hash at most one request is in flight (posted and not yet
\* answered and routed), and all callbacks queued for a hash wait on one and
\* the same posted request.
C1_Dedup ==
  /\ \A h \in Hashes : InFlight(h) <= 1
  /\ \A h \in DOMAIN callbacks :
       /\ \A k \in 1..Len(callbacks[h]) :
            reg[callbacks[h][k]].req = reg[callbacks[h][1]].req
       /\ CopiesIn(Request(h, reg[callbacks[h][1]].req), posted) = 1

\* C2: when a router finds an entry for the hash of a result, it invokes every
\* callback of that entry exactly once, with that result, and no other callback.
C2_Correlation ==
  \A r \in Routed :
    r.present =>
      /\ r.to - r.from = Len(r.queue)
      /\ \A k \in 1..Len(r.queue) :
           invoked[r.from + k] = [cb |-> r.queue[k], result |-> r.msg]

\* C3: the callbacks of one hash are invoked in the order of their minify calls,
\* and a callback is invoked only after every callback registered before it for
\* the same request has been invoked.
C3_Fifo ==
  /\ \A i, j \in 1..Len(invoked) :
       (i < j /\ reg[invoked[i].cb].hash = reg[invoked[j].cb].hash)
         => invoked[i].cb < invoked[j].cb
  /\ \A j \in 1..Len(invoked) : \A k \in Ids :
       (k < invoked[j].cb /\ reg[k].req = reg[invoked[j].cb].req)
         => \E i \in 1..(j - 1) : invoked[i].cb = k

\* two callbacks of one request have both been invoked
C3_Witness ==
  \E i, j \in 1..Len(invoked) :
    i < j /\ reg[invoked[i].cb].req = reg[invoked[j].cb].req

\* the port emits a value in this step
DeliverStep == inbox # <<>> /\ inbox' = Tail(inbox)

\* after the step, h has no entry, or an entry made only of callbacks passed to
\* minify during the step, which wait on a request posted during the step
Fresh(h) ==
  h \in DOMAIN callbacks' =>
    \A k \in 1..Len(callbacks'[h]) :
      LET cb == callbacks'[h][k] IN
        /\ cb > Len(reg)
        /\ reg'[cb].req >= NextRequest(posted)
        /\ CopiesIn(Request(h, reg'[cb].req), posted') = 1

\* a minify call for h that finds no entry makes the entry of its callback alone
\* and posts one new request for h; it invokes nothing
BrandNew(h) ==
  (h \notin DOMAIN callbacks /\ ~DeliverStep /\ Len(reg') = Len(reg) + 1
     /\ reg'[Len(reg')].hash = h)
    => /\ callbacks'[h] = <<Len(reg')>>
       /\ posted' = posted (+) SetToBag({Request(h, NextRequest(posted))})
       /\ invoked' = invoked

\* C4: once a router has delivered a result for h the registry keeps nothing of
\* the delivered entry, and a minify call for a hash without entry creates a
\* fresh entry and posts a new request.
C4_CleanRemoval ==
  [][/\ DeliverStep =>
          \A i \in 1..Len(routes') :
            (routes'[i].kind = "handler" /\ routes'[i].present)
              => Fresh(routes'[i].msg.hash)
     /\ \A h \in Hashes : BrandNew(h)]_vars

\* a hash whose result was delivered is pending again on a later request
C4_Witness ==
  \E h \in DOMAIN callbacks : \E i \in 1..Len(invoked) :
    /\ invoked[i].result.hash = h
    /\ reg[callbacks[h][1]].req > invoked[i].result.n

\* a healthy connection with nothing left to answer, deliver or resume
Quiescent ==
  /\ Healthy
  /\ ~closed
  /\ outbox = <<>>
  /\ inbox = <<>>
  /\ ~MicrotaskPending

\* C5: on a connection that was healthy at every minify call and still is, once
\* the worker has answered everything and the port has emitted everything,
\* every callback has been invoked exactly once.
C5_Completion ==
  (Quiescent /\ clean) => \A cb \in Ids : InvokedCount(cb) = 1

\* C6: a router that gets a result whose hash has no entry raises an error and
\* invokes no callback.
C6_UnknownHash ==
  \A r \in Routed : ~r.present => (r.raised = "TypeError" /\ r.to = r.from)

\* a router got a result for a hash without entry
C6_Witness == \E r \in Routed : ~r.present

\* C7: once connect() is past its await, the port has emitted a value since the
\* call, and configHash is the first such value.
C7_Handshake ==
  \A c \in 1..Len(conns) :
    conns[c].pc \in {"resolved", "connected"}
      => (conns[c].heard # Undefined /\ conns[c].configHash = conns[c].heard)

AnyDisconnected == \E c \in 1..Len(conns) : conns[c].disconnected

\* C8: after disconnect() the router of that connection is not installed and the
\* port is closed, and from then on no callback is invoked and no registry entry
\* is removed or reordered.
C8_Teardown ==
  /\ [](\A c \in 1..Len(conns) :
          conns[c].disconnected
            => (closed /\ Count(listeners, HandlerListener(c)) = 0))
  /\ [][AnyDisconnected =>
          /\ invoked' = invoked
          /\ \A h \in DOMAIN callbacks :
               h \in DOMAIN callbacks' /\ IsPrefix(callbacks[h], callbacks'[h])]_vars

\* after a disconnect() a result for a pending hash is queued at the port while
\* the router of another connection is still installed
C8_Witness ==
  /\ AnyDisconnected
  /\ listeners # <<>>
  /\ inbox # <<>>
  /\ Head(inbox).val = "result"
  /\ Head(inbox).hash \in DOMAIN callbacks

\* a result for request n has been passed to a callback
Delivered(n) == \E i \in 1..Len(invoked) : invoked[i].result.n = n

\* C9: a hash has an entry exactly if a request posted for it has had no
\* response delivered, and every entry holds at least one callback.
C9_PendingEntry ==
  /\ \A h \in Hashes :
       h \in DOMAIN callbacks
         <=> \E m \in PostedRequests(posted) : m.hash = h /\ ~Delivered(m.n)
  /\ \A h \in DOMAIN callbacks : callbacks[h] # <<>>

\* C10: every connect() call has posted one "initialize"; its once-listener is
\* registered exactly while it awaits; its router is installed only after it got
\* the configuration identity, and is installed whenever the connection has been
\* returned and not disconnected.
C10_HandshakeProtocol ==
  /\ CopiesIn(Str("initialize"), posted) = Len(conns)
  /\ \A c \in 1..Len(conns) :
       /\ Count(listeners, OnceListener(c)) = (IF conns[c].pc = "awaiting" THEN 1 ELSE 0)
       /\ conns[c].pc = "awaiting" => conns[c].configHash = Undefined
       /\ Count(listeners, HandlerListener(c)) > 0
            => (conns[c].heard # Undefined /\ conns[c].configHash # Undefined)
       /\ Count(listeners, HandlerListener(c)) <= 1
       /\ Connected(c) => Count(listeners, HandlerListener(c)) = 1

\* two connect() calls have returned their connections
C10_Witness ==
  /\ Len(conns) = 2
  /\ \A c \in 1..Len(conns) : Connected(c)

\* the callbacks waiting in the registry
Pending ==
  UNION {{callbacks[h][k] : k \in 1..Len(callbacks[h])} : h \in DOMAIN callbacks}

\* C11: the step in which a disconnect() is called leaves the registry and the
\* invocation record as they are, and once the port is closed no callback that
\* waits in the registry is invoked any more.
C11_NoDrain ==
  [][/\ (\E c \in 1..Len(conns) : ~conns[c].disconnected /\ conns'[c].disconnected)
          => (callbacks' = callbacks /\ invoked' = invoked)
     /\ closed =>
          \A cb \in Pending :
            \A i \in 1..Len(invoked') : invoked'[i].cb = cb => i <= Len(invoked)]_vars

\* disconnect() was called while a callback waited on a request the worker has
\* yet to answer
C11_Witness ==
  /\ AnyDisconnected
  /\ \E h \in DOMAIN callbacks :
       /\ InvokedCount(callbacks[h][1]) = 0
       /\ \E i \in 1..Len(outbox) : outbox[i] = Request(h, reg[callbacks[h][1]].req)

\* the routers installed on the port
Routers == {i \in 1..Len(listeners) : listeners[i].kind = "handler"}

\* C12: once a disconnect() has been called the port is closed and stays closed
\* and no router is installed on it, whatever is called afterwards; a router is
\* installed only for a connect() call that has completed its handshake.
C12_Lifecycle ==
  /\ AnyDisconnected => (closed /\ Routers = {})
  /\ \A i \in Routers : conns[listeners[i].conn].pc = "connected"

\* no connect() call has completed: connect() was not called or is handshaking
NoConnection == \A c \in 1..Len(conns) : conns[c].pc # "connected"

\* C13: a minify call for a hash without entry that is made before any connect()
\* has completed registers its callback and puts its request on the wire in the
\* same step; nothing is held back until the handshake is over.
C13_NoGating ==
  [][\A h \in Hashes :
       (NoConnection /\ h \notin DOMAIN callbacks /\ ~DeliverStep
          /\ Len(reg') = Len(reg) + 1 /\ reg'[Len(reg')].hash = h)
         => /\ callbacks'[h] = <<Len(reg')>>
            /\ CopiesIn(Request(h, NextRequest(posted)), posted') = 1
            /\ outbox' = Append(outbox, Request(h, NextRequest(posted)))]_vars

\* a connect() is still handshaking, and a request whose callback is registered
\* is already on its way to the worker
C13_Witness ==
  /\ NoConnection
  /\ \E c \in 1..Len(conns) : conns[c].pc = "awaiting"
  /\ \E h \in DOMAIN callbacks :
       \E i \in 1..Len(outbox) : outbox[i] = Request(h, reg[callbacks[h][1]].req)

\* C14: when the port emits a value that is no object (a number, false or a
\* string) to an installed router, the registry stays as it is, no callback is
\* invoked, nothing is posted and no router raises.
C14_IgnoresOthers ==
  [][(DeliverStep /\ Head(inbox).typ # "object" /\ Routers # {})
       => /\ callbacks' = callbacks
          /\ invoked' = invoked
          /\ posted' = posted
          /\ \A i \in 1..Len(routes') :
               routes'[i].kind = "handler" =>
                 (routes'[i].raised = "none" /\ ~routes'[i].present)]_vars

\* a router was handed a number or false while callbacks were waiting
C14_Witness ==
  /\ DOMAIN callbacks # {}
  /\ \E r \in Routes : r.kind = "handler" /\ r.msg \in Reserved

\* C15: a disconnect() call on a connection whose disconnect() was called before
\* changes nothing: the listeners, the closed port, the registry, the invocation
\* record and everything else stay as the first call left them.
C15_Idempotent ==
  [][\A c \in 1..Len(conns) :
       (conns[c].disconnected /\ Disconnect(c)) => UNCHANGED vars]_vars

\* the state a second disconnect() call is made in and leaves as it is: the
\* first call was made, the port still has a listener and callbacks are waiting
C15_Witness ==
  /\ \E c \in 1..Len(conns) : conns[c].disconnected /\ conns[c].pc = "connected"
  /\ ~MicrotaskPending
  /\ closed
  /\ listeners # <<>>
  /\ DOMAIN callbacks # {}

\* C16: no result is taken by a connect() call as its configuration identity,
\* and when a connection is established, no disconnect() was called and nothing
\* is left on the wire, no request is still pending: every request, also one
\* posted before or during the handshake, has been answered to its callbacks.
C16_EarlyAnswered ==
  /\ \A c \in 1..Len(conns) : conns[c].heard.val # "result"
  /\ Quiescent => DOMAIN callbacks = {}

\* C17: the port has at most one router, a result is handed to at most one
\* router, and no router finds the entry of a result missing that another router
\* found when the same result was emitted.
C17_SingleRouter ==
  /\ Cardinality(Routers) <= 1
  /\ Cardinality(Routed) <= 1
  /\ \A r \in Routed : ~r.present => \A q \in Routed : ~q.present

\* C18: a callback is invoked only with the answer to the request it waits on,
\* never with a result that was being delivered when it was passed to minify,
\* and a callback that waits in the registry has not been invoked: the callback
\* passed to minify from inside a callback waits on a new request in a fresh
\* entry.
C18_Reentrant ==
  /\ \A i \in 1..Len(invoked) : invoked[i].result.n = reg[invoked[i].cb].req
  /\ \A cb \in Pending :
       /\ InvokedCount(cb) = 0
       /\ CopiesIn(Request(reg[cb].hash, reg[cb].req), posted) = 1

\* the routers a callback threw out of when the last value was emitted
Thrown == {r \in Routed : r.raised = "callback"}

\* C19: when a callback queued for h throws during the delivery of a result,
\* the callbacks before it and itself were invoked in order, the callbacks
\* queued after it are not invoked, no callback of the delivered entry is left
\* in the registry, and whatever waits for h afterwards waits on another
\* request, posted once.
C19_ThrowingCallback ==
  \A r \in Thrown :
    LET k == r.to - r.from IN
      /\ k \in 1..Len(r.queue)
      /\ reg[r.queue[k]].kind = "throws"
      /\ \A j \in 1..k : invoked[r.from + j] = [cb |-> r.queue[j], result |-> r.msg]
      /\ \A j \in (k + 1)..Len(r.queue) : InvokedCount(r.queue[j]) = 0
      /\ \A j \in 1..Len(r.queue) : r.queue[j] \notin Pending
      /\ \A cb \in Pending :
           reg[cb].hash = r.msg.hash =>
             /\ reg[cb].req # r.msg.n
             /\ CopiesIn(Request(r.msg.hash, reg[cb].req), posted) = 1

\* a callback threw, the callback queued after it was abandoned, and a later
\* minify call for the hash is waiting on a new request
C19_Witness ==
  \E r \in Thrown :
    /\ r.to - r.from < Len(r.queue)
    /\ r.msg.hash \in DOMAIN callbacks

\* the queue of hash g in the registry m, empty when g has no entry
Entry(m, g) == IF g \in DOMAIN m THEN m[g] ELSE <<>>

\* the step leaves every hash but h alone: same entry, none of its callbacks
\* invoked
Isolated(h) ==
  /\ \A g \in Hashes \ {h} : Entry(callbacks', g) = Entry(callbacks, g)
  /\ \A i \in (Len(invoked) + 1)..Len(invoked') : reg'[invoked'[i].cb].hash = h

\* C20: a minify call for h, and the emission of a result for h to the port's
\* listeners (with or without an entry for h), change the entry of h only: the
\* entry of every other hash is the same after the step and none of its
\* callbacks is invoked.
C20_Isolation ==
  [][/\ (~DeliverStep /\ Len(reg') = Len(reg) + 1)
          => (Isolated(reg'[Len(reg')].hash) /\ invoked' = invoked)
     /\ (DeliverStep /\ Head(inbox).val = "result")
          => Isolated(Head(inbox).hash)]_vars

\* a result was routed, to an entry or to none, while another hash was pending
C20_Witness ==
  \E r \in Routed : \E g \in DOMAIN callbacks : g # r.msg.hash

====
